---- MODULE Spec2Model ----
(***************************************************************************)
(* The "find Batman" click-search game of NeuralNinjas, as a state machine. *)
(*                                                                         *)
(* The repository holds three variants of the browser client:              *)
(*   "plain"  src/front-end/script.js lines 1-143   (fixed target)         *)
(*   "timer"  src/front-end/script.js lines 144-372 (upload, timer, score) *)
(*   "server" src/unnamed/part_000 lines 593-800    (/api/process target)  *)
(* One page loads one of them; `variant` says which and never changes.     *)
(* A fourth page, "campaign" (src/unnamed/part_000 lines 1-235), uploads   *)
(* a picture to /api/upload; it has its own specification, SpecCampaign.   *)
(*                                                                         *)
(* Geometry.  Normalised coordinates are the fractions k/Den.  Pixel       *)
(* positions are kept multiplied by Den, so that x_norm * width, which     *)
(* need not be a whole number of pixels, is the integer k * width.         *)
(*                                                                         *)
(* Events.  A control delivers an event only while the step that holds it  *)
(* is the active one and the code has neither hidden nor disabled it; the  *)
(* HTML is not part of the sources, so the placement of the controls is    *)
(* the evident one (file input in the upload step, start button in the     *)
(* ready step, image and its buttons in the game step).  resetGame() is    *)
(* delivered in every step.  setTimeout callbacks are pending tasks that   *)
(* run at some later moment.                                               *)
(***************************************************************************)
EXTENDS Integers, Sequences, FiniteSets, TLC

VARIABLES
    variant,          \* which script the page runs
    gameActive,       \* let gameActive
    attempts,         \* let attempts (let clicks in the timer variant)
    processing,       \* let processing (server variant)
    batmanLocation,   \* const batmanLocation = {x, y, radius}; x, y in 1/Den
    step,             \* the step element carrying class "active"
    markers,          \* the .click-marker children of gameContainer, in order
    playAgainBtn,     \* playAgainBtn.style.display
    giveUpBtn,        \* giveUpBtn.style.display
    loading,          \* loadingOverlay shown and every button disabled
    message,          \* message.textContent, by kind
    fileInput,        \* fileInput.value: "" or "selected"
    gameImageSrc,     \* gameImage.src
    imgSize,          \* <<gameImage.width, gameImage.height>> as rendered
    inflight,         \* fetch() calls awaiting their response
    now,              \* Date.now(), in milliseconds
    startTime,        \* let startTime; 0 stands for null (null is 0 in
                      \* Date.now() - startTime and false in !startTime)
    timerInterval,    \* let timerInterval; 0 stands for null
    intervals,        \* ids of the setInterval tasks still repeating
    timerIds,         \* number of setInterval calls made so far
    compositeImagePath, \* let compositeImagePath; "null" stands for null
    uploads,          \* files the /upload endpoint has stored so far
    uploadStatus,     \* uploadStatus.textContent, by kind
    timerDisplay,     \* timerDisplay.textContent as <<minutes, seconds>>
    readyTimeouts,    \* pending setTimeout(() => showStep('ready'), 1000)
    resultsTimeouts,  \* arguments of the pending showResults() timeouts,
                      \* in the order they were set
    results,          \* what showResults() last wrote, if it ran
    selectedFile,     \* let selectedFile (campaign page); "null" for null
    uploadBtnDisabled, \* uploadBtn.disabled
    loadingIndicator, \* loadingIndicator.style.display
    uploadText,       \* the .upload-text of uploadBox: "prompt" or the
                      \* name of the selected file
    currentCampaignId, \* let currentCampaignId; 0 stands for null
    reloading         \* uploadImage() calls awaiting loadCampaignsList()

vars == <<variant, gameActive, attempts, processing, batmanLocation, step,
          markers, playAgainBtn, giveUpBtn, loading, message, fileInput,
          gameImageSrc, imgSize, inflight, now, startTime, timerInterval,
          intervals, timerIds, compositeImagePath, uploads, uploadStatus,
          timerDisplay, readyTimeouts, resultsTimeouts, results,
          selectedFile, uploadBtnDisabled, loadingIndicator, uploadText,
          currentCampaignId, reloading>>

\* the state of the campaign page alone
campaignVars == <<selectedFile, uploadBtnDisabled, loadingIndicator,
                  uploadText, currentCampaignId, reloading>>

\* the state of the timer variant alone
timerVars == <<now, startTime, timerInterval, intervals, timerIds,
               compositeImagePath, uploads, uploadStatus, timerDisplay,
               readyTimeouts, resultsTimeouts, results>>

----------------------------------------------------------------------------
(* Bounds of the model *)

\* normalised coordinates are multiples of 1/Den; Den is even, so that the
\* centre 0.5 of the image is the coordinate Half
Half == 2

Den == 2 * Half
\* clicks handled in one round
MaxAttempts == 2

\* uploads one page issues (timer variant)
MaxUploads == 2
\* setInterval calls one page makes (timer variant)
MaxTimers == 2

\* clicks and whole seconds of play the scoring runs cover
MaxClicks == 24
MaxSeconds == 110

\* the fallback radius of the server variant
DefaultRadius == 42

Variants == {"plain", "timer", "server"}

\* rendered sizes of the image element (responsive scaling changes them)
Sizes == {<<800, 600>>, <<900, 675>>}

\* click positions relative to the rendered image, in pixels
ClickPoints == {<<400, 300>>, <<300, 300>>, <<430, 340>>, <<431, 340>>}

\* kinds of file a selection or a drop can carry: files[0] undefined, a
\* file whose type starts with image/, any other file
Files == {"none", "image", "other"}

\* the instants at which the clock is read
TimePoints == {1000, 21500}

GAME_IMAGE_PATH == "images/batman-game.jpg"

\* the placements a processing response can carry (x_norm, y_norm in 1/Den;
\* radius 0 stands for a radius that is 0 or absent)
Placements == { [x |-> Half, y |-> Half, radius |-> 50],
                [x |-> Half, y |-> Half, radius |-> 0],
                [x |-> 1, y |-> Half, radius |-> 100] }

\* outcomes of the /api/process call that end in the catch block: fetch
\* rejects, res.ok is false, or the body is not the expected JSON
Failures == {"network", "http", "malformed"}

----------------------------------------------------------------------------
(* The hit test *)

\* batmanX with the target projected onto a fixed 800 pixel wide image
batmanX_fixedWidth(loc, size) == loc.x * 800

\* const batmanX = batmanLocation.x * gameImage.width (in 1/Den pixels)
batmanX(loc, size) == loc.x * size[1]

\* const batmanY = batmanLocation.y * gameImage.height (in 1/Den pixels)
batmanY(loc, size) == loc.y * size[2]

\* Math.pow(clickX - batmanX, 2) + Math.pow(clickY - batmanY, 2), the
\* argument of Math.sqrt, in 1/Den^2 square pixels
distanceSq(p, loc, size) ==
    (Den * p[1] - batmanX(loc, size)) * (Den * p[1] - batmanX(loc, size))
  + (Den * p[2] - batmanY(loc, size)) * (Den * p[2] - batmanY(loc, size))

\* IsHit with the comparison distance < batmanLocation.radius
IsHit_strict(p, loc, size) ==
    /\ loc.radius >= 0
    /\ distanceSq(p, loc, size) < (Den * loc.radius) * (Den * loc.radius)

\* distance <= batmanLocation.radius, where distance is the square root of
\* distanceSq: a square root is never negative and is monotonic
IsHit(p, loc, size) ==
    /\ loc.radius >= 0
    /\ distanceSq(p, loc, size) <= (Den * loc.radius) * (Den * loc.radius)

\* ClickMarker with style.left and style.top taken from the wrong axis
ClickMarker_swapped(p, success) ==
    [left |-> Den * p[2], top |-> Den * p[1], success |-> success]

\* the marker element a click creates: style.left/top are the click position
ClickMarker(p, success) ==
    [left |-> Den * p[1], top |-> Den * p[2], success |-> success]

\* RevealMarker projected onto a fixed 800x600 image
RevealMarker_fixedSize(loc, size) ==
    [left |-> loc.x * 800, top |-> loc.y * 600, success |-> TRUE]

\* the marker revealBatmanMarker() creates
RevealMarker(loc, size) ==
    [left |-> batmanX(loc, size), top |-> batmanY(loc, size), success |-> TRUE]

\* markers.forEach(m => m.remove())
NoMarkers == << >>

\* s without its i-th element
RemoveAt(s, i) == SubSeq(s, 1, i - 1) \o SubSeq(s, i + 1, Len(s))

----------------------------------------------------------------------------
(* The state after the page has loaded *)

\* the campaign page as loaded: no file chosen, the upload button waiting
\* for handleFileSelect() to enable it, nothing requested
CampaignLoaded ==
    /\ selectedFile = "null"
    /\ uploadBtnDisabled = TRUE
    /\ loadingIndicator = "none"
    /\ uploadText = "prompt"
    /\ currentCampaignId = 0
    /\ reloading = 0

\* the variables of a page as its script has initialised them
Loaded ==
    /\ gameActive = FALSE
    /\ attempts = 0
    /\ processing = FALSE
    /\ batmanLocation = [x |-> Half, y |-> Half, radius |-> 50]
    /\ step = "upload"
    /\ markers = NoMarkers
    /\ playAgainBtn = "none"
    /\ giveUpBtn = "none"
    /\ loading = FALSE
    /\ message = ""
    /\ fileInput = ""
    /\ gameImageSrc = ""
    /\ imgSize \in Sizes
    /\ inflight = 0
    /\ now = 1000
    /\ startTime = 0
    /\ timerInterval = 0
    /\ intervals = {}
    /\ timerIds = 0
    /\ compositeImagePath = "null"
    /\ uploads = 0
    /\ uploadStatus = ""
    /\ timerDisplay = <<0, 0>>
    /\ readyTimeouts = 0
    /\ resultsTimeouts = << >>
    /\ results = {}
    /\ CampaignLoaded

\* one of the three game pages, loaded
Init ==
    /\ variant \in Variants
    /\ Loaded

----------------------------------------------------------------------------
(* Steps of the environment common to the variants *)

\* responsive scaling re-renders the image at another size
Resize ==
    /\ \E s \in Sizes : s # imgSize /\ imgSize' = s
    /\ UNCHANGED timerVars
    /\ UNCHANGED campaignVars
    /\ UNCHANGED <<variant, gameActive, attempts, processing, batmanLocation,
                   step, markers, playAgainBtn, giveUpBtn, loading, message,
                   fileInput, gameImageSrc, inflight>>

\* the markers still shown whose removal is pending, oldest first
MissIndexes(ms) == {i \in 1..Len(ms) : ~ms[i].success}

\* the newest marker, whatever its kind, is the one removed
RemoveMarker_newest ==
    /\ MissIndexes(markers) # {}
    /\ markers' = SubSeq(markers, 1, Len(markers) - 1)
    /\ UNCHANGED timerVars
    /\ UNCHANGED campaignVars
    /\ UNCHANGED <<variant, gameActive, attempts, processing, batmanLocation,
                   step, playAgainBtn, giveUpBtn, loading, message,
                   fileInput, gameImageSrc, imgSize, inflight>>

\* the oldest marker, whatever its kind, is the one removed
RemoveMarker_any ==
    /\ markers # << >>
    /\ markers' = Tail(markers)
    /\ UNCHANGED timerVars
    /\ UNCHANGED campaignVars
    /\ UNCHANGED <<variant, gameActive, attempts, processing, batmanLocation,
                   step, playAgainBtn, giveUpBtn, loading, message,
                   fileInput, gameImageSrc, imgSize, inflight>>

\* setTimeout(() => { marker.remove(); }, 1000) of a miss marker: the
\* timeouts have one delay, so the oldest miss marker goes first
RemoveMarker ==
    /\ MissIndexes(markers) # {}
    /\ LET i == CHOOSE k \in MissIndexes(markers) :
                    \A j \in MissIndexes(markers) : k <= j
       IN  markers' = RemoveAt(markers, i)
    /\ UNCHANGED timerVars
    /\ UNCHANGED campaignVars
    /\ UNCHANGED <<variant, gameActive, attempts, processing, batmanLocation,
                   step, playAgainBtn, giveUpBtn, loading, message,
                   fileInput, gameImageSrc, imgSize, inflight>>

----------------------------------------------------------------------------
(* The plain variant: src/front-end/script.js lines 1-143 *)

\* fileInput 'change' and upload-area 'drop': startGame() for an image
Plain_fileSelectedWith(f, viaInput) ==
    /\ variant = "plain"
    /\ step = "upload"
    /\ fileInput' = IF viaInput /\ f # "none" THEN "selected" ELSE fileInput
    /\ IF f = "image"
       THEN /\ gameImageSrc' = GAME_IMAGE_PATH
            /\ step' = "game"
            /\ gameActive' = TRUE
            /\ attempts' = 0
       ELSE UNCHANGED <<gameImageSrc, step, gameActive, attempts>>
    /\ UNCHANGED timerVars
    /\ UNCHANGED campaignVars
    /\ UNCHANGED <<variant, processing, batmanLocation, markers, playAgainBtn,
                   giveUpBtn, loading, message, imgSize, inflight>>

\* a selection or a drop of any kind of file
Plain_fileSelected ==
    \E f \in Files, viaInput \in BOOLEAN : Plain_fileSelectedWith(f, viaInput)

\* the gameImage 'click' listener, for a click at p
Plain_clickHandler(p) ==
    /\ variant = "plain"
    /\    IF ~gameActive
          THEN UNCHANGED <<attempts, markers, message, gameActive, playAgainBtn>>
          ELSE /\ attempts' = attempts + 1
               /\ IF IsHit(p, batmanLocation, imgSize)
                  THEN /\ markers' = Append(markers, ClickMarker(p, TRUE))
                       /\ message' = "found"
                       /\ gameActive' = FALSE
                       /\ playAgainBtn' = "inline-block"
                  ELSE /\ markers' = Append(markers, ClickMarker(p, FALSE))
                       /\ message' = "notquite"
                       /\ UNCHANGED <<gameActive, playAgainBtn>>
    /\ UNCHANGED timerVars
    /\ UNCHANGED campaignVars
    /\ UNCHANGED <<variant, processing, batmanLocation, step, giveUpBtn,
                   loading, fileInput, gameImageSrc, imgSize, inflight>>

\* a click on the image, which the game step shows
Plain_click ==
    /\ step = "game"
    /\ gameActive => attempts < MaxAttempts
    /\ \E p \in ClickPoints : Plain_clickHandler(p)

\* playAgain()
Plain_playAgain ==
    /\ variant = "plain"
    /\ step = "game"
    /\ playAgainBtn # "none"
    /\ markers' = NoMarkers
    /\ gameActive' = TRUE
    /\ attempts' = 0
    /\ message' = ""
    /\ playAgainBtn' = "none"
    /\ UNCHANGED timerVars
    /\ UNCHANGED campaignVars
    /\ UNCHANGED <<variant, processing, batmanLocation, step, giveUpBtn,
                   loading, fileInput, gameImageSrc, imgSize, inflight>>

\* resetGame()
Plain_resetGame ==
    /\ variant = "plain"
    /\ gameActive' = FALSE
    /\ attempts' = 0
    /\ message' = ""
    /\ playAgainBtn' = "none"
    /\ fileInput' = ""
    /\ markers' = NoMarkers
    /\ step' = "upload"
    /\ UNCHANGED timerVars
    /\ UNCHANGED campaignVars
    /\ UNCHANGED <<variant, processing, batmanLocation, giveUpBtn, loading,
                   gameImageSrc, imgSize, inflight>>

----------------------------------------------------------------------------
(* The server-assisted variant: src/unnamed/part_000 lines 593-800 *)

\* processUploadedImage() without its `if (processing) return`
Server_fileSelected_reentrant ==
    /\ variant = "server"
    /\ step = "upload"
    /\ \E f \in Files, viaInput \in BOOLEAN :
          /\ fileInput' = IF viaInput /\ f # "none" THEN "selected" ELSE fileInput
          /\ IF f = "image"
             THEN /\ processing' = TRUE
                  /\ message' = "processing"
                  /\ loading' = TRUE
                  /\ inflight' = inflight + 1
             ELSE UNCHANGED <<processing, message, loading, inflight>>
    /\ UNCHANGED timerVars
    /\ UNCHANGED campaignVars
    /\ UNCHANGED <<variant, gameActive, attempts, batmanLocation, step,
                   markers, playAgainBtn, giveUpBtn, gameImageSrc, imgSize>>

\* fileInput 'change' and upload-area 'drop', then processUploadedImage()
\* up to its await
Server_fileSelectedWith(f, viaInput) ==
    /\ variant = "server"
    /\ step = "upload"
    /\ fileInput' = IF viaInput /\ f # "none" THEN "selected" ELSE fileInput
    /\ IF f = "image" /\ ~processing
       THEN /\ processing' = TRUE
            /\ message' = "processing"
            /\ loading' = TRUE
            /\ inflight' = inflight + 1
       ELSE UNCHANGED <<processing, message, loading, inflight>>
    /\ UNCHANGED timerVars
    /\ UNCHANGED campaignVars
    /\ UNCHANGED <<variant, gameActive, attempts, batmanLocation, step,
                   markers, playAgainBtn, giveUpBtn, gameImageSrc, imgSize>>

\* a selection or a drop of any kind of file
Server_fileSelected ==
    \E f \in Files, viaInput \in BOOLEAN : Server_fileSelectedWith(f, viaInput)

\* batmanLocation.radius = data.batman.radius, without the || 42
RadiusOf_asDelivered(r) == r

\* batmanLocation.radius = data.batman.radius || 42
RadiusOf(r) == IF r = 0 THEN DefaultRadius ELSE r

\* processUploadedImage() from the response on, for a response whose
\* data.batman is b: the try body with startGame(), then the finally block
Server_processedWith(b) ==
    /\ variant = "server"
    /\ inflight > 0
    /\ inflight' = inflight - 1
    /\ batmanLocation' = [x |-> b.x, y |-> b.y, radius |-> RadiusOf(b.radius)]
    /\ gameImageSrc' = "output_image_url"
    /\ step' = "game"
    /\ gameActive' = TRUE
    /\ attempts' = 0
    /\ giveUpBtn' = "inline-block"
    /\ message' = "detected"
    /\ loading' = FALSE
    /\ processing' = FALSE
    /\ UNCHANGED timerVars
    /\ UNCHANGED campaignVars
    /\ UNCHANGED <<variant, markers, playAgainBtn, fileInput, imgSize>>

\* a response with any placement
Server_processed == \E b \in Placements : Server_processedWith(b)

\* processUploadedImage() without its finally block
Server_processFailed_flagKept ==
    /\ variant = "server"
    /\ inflight > 0
    /\ inflight' = inflight - 1
    /\ message' = "error"
    /\ UNCHANGED timerVars
    /\ UNCHANGED campaignVars
    /\ UNCHANGED <<variant, gameActive, attempts, processing, batmanLocation,
                   step, markers, playAgainBtn, giveUpBtn, loading,
                   fileInput, gameImageSrc, imgSize>>

\* the catch block starting a game on the default centred target
Server_processFailed_fallback ==
    /\ variant = "server"
    /\ inflight > 0
    /\ inflight' = inflight - 1
    /\ batmanLocation' = [x |-> Half, y |-> Half, radius |-> 50]
    /\ step' = "game"
    /\ gameActive' = TRUE
    /\ attempts' = 0
    /\ giveUpBtn' = "inline-block"
    /\ message' = "detected"
    /\ loading' = FALSE
    /\ processing' = FALSE
    /\ UNCHANGED timerVars
    /\ UNCHANGED campaignVars
    /\ UNCHANGED <<variant, markers, playAgainBtn, fileInput, gameImageSrc,
                   imgSize>>

\* processUploadedImage() from a failed call on: catch, then finally
Server_processFailed ==
    /\ variant = "server"
    /\ inflight > 0
    /\ inflight' = inflight - 1
    /\ \E why \in Failures : message' = "error"
    /\ loading' = FALSE
    /\ processing' = FALSE
    /\ UNCHANGED timerVars
    /\ UNCHANGED campaignVars
    /\ UNCHANGED <<variant, gameActive, attempts, batmanLocation, step,
                   markers, playAgainBtn, giveUpBtn, fileInput, gameImageSrc,
                   imgSize>>

\* selectPlacement(objects, imageSize) of the Placement Selector, by the
\* kind of its result, for a number of detected objects: an explicit
\* failure when there is none
selectPlacement(objects) ==
    IF objects = 0 THEN "NoCandidates" ELSE "Placement"

\* the client's continuation when the upstream has detected that many
\* objects: a failure of the selector arrives as an error payload
Server_upstreamAnswers(objects) ==
    IF selectPlacement(objects) = "NoCandidates"
    THEN Server_processFailed
    ELSE Server_processed

\* the gameImage 'click' listener, for a click at p
Server_clickHandler(p) ==
    /\ variant = "server"
    /\    IF ~gameActive
          THEN UNCHANGED <<attempts, markers, message, gameActive,
                           playAgainBtn, giveUpBtn>>
          ELSE /\ attempts' = attempts + 1
               /\ IF IsHit(p, batmanLocation, imgSize)
                  THEN /\ markers' = Append(markers, ClickMarker(p, TRUE))
                       /\ message' = "found"
                       /\ gameActive' = FALSE
                       /\ playAgainBtn' = "inline-block"
                       /\ giveUpBtn' = "none"
                  ELSE /\ markers' = Append(markers, ClickMarker(p, FALSE))
                       /\ message' = "notquite"
                       /\ UNCHANGED <<gameActive, playAgainBtn, giveUpBtn>>
    /\ UNCHANGED timerVars
    /\ UNCHANGED campaignVars
    /\ UNCHANGED <<variant, processing, batmanLocation, step, loading,
                   fileInput, gameImageSrc, imgSize, inflight>>

\* a click on the image, which the game step shows
Server_click ==
    /\ step = "game"
    /\ gameActive => attempts < MaxAttempts
    /\ \E p \in ClickPoints : Server_clickHandler(p)

\* giveUp() without its `if (!gameActive) return`
Server_giveUp_unguarded ==
    /\ variant = "server"
    /\ step = "game"
    /\ ~loading
    /\ gameActive' = FALSE
    /\ markers' = IF Len(markers) < MaxAttempts + 1
                  THEN Append(markers, RevealMarker(batmanLocation, imgSize))
                  ELSE markers
    /\ message' = "revealed"
    /\ playAgainBtn' = "inline-block"
    /\ giveUpBtn' = "none"
    /\ UNCHANGED timerVars
    /\ UNCHANGED campaignVars
    /\ UNCHANGED <<variant, attempts, processing, batmanLocation, step,
                   loading, fileInput, gameImageSrc, imgSize, inflight>>

\* giveUp(), with revealBatmanMarker()
Server_giveUp ==
    /\ variant = "server"
    /\ step = "game"
    /\ ~loading
    /\ IF ~gameActive
       THEN UNCHANGED <<gameActive, markers, message, playAgainBtn, giveUpBtn>>
       ELSE /\ gameActive' = FALSE
            /\ markers' = Append(markers, RevealMarker(batmanLocation, imgSize))
            /\ message' = "revealed"
            /\ playAgainBtn' = "inline-block"
            /\ giveUpBtn' = "none"
    /\ UNCHANGED timerVars
    /\ UNCHANGED campaignVars
    /\ UNCHANGED <<variant, attempts, processing, batmanLocation, step,
                   loading, fileInput, gameImageSrc, imgSize, inflight>>

\* playAgain() without its attempts = 0
Server_playAgain_keepAttempts ==
    /\ variant = "server"
    /\ step = "game"
    /\ playAgainBtn # "none"
    /\ ~loading
    /\ markers' = NoMarkers
    /\ gameActive' = TRUE
    /\ message' = ""
    /\ playAgainBtn' = "none"
    /\ giveUpBtn' = "inline-block"
    /\ UNCHANGED timerVars
    /\ UNCHANGED campaignVars
    /\ UNCHANGED <<variant, attempts, processing, batmanLocation, step,
                   loading, fileInput, gameImageSrc, imgSize, inflight>>

\* playAgain()
Server_playAgain ==
    /\ variant = "server"
    /\ step = "game"
    /\ playAgainBtn # "none"
    /\ ~loading
    /\ markers' = NoMarkers
    /\ gameActive' = TRUE
    /\ attempts' = 0
    /\ message' = ""
    /\ playAgainBtn' = "none"
    /\ giveUpBtn' = "inline-block"
    /\ UNCHANGED timerVars
    /\ UNCHANGED campaignVars
    /\ UNCHANGED <<variant, processing, batmanLocation, step, loading,
                   fileInput, gameImageSrc, imgSize, inflight>>

\* resetGame() without the removal of the markers
Server_resetGame_keepMarkers ==
    /\ variant = "server"
    /\ ~loading
    /\ gameActive' = FALSE
    /\ attempts' = 0
    /\ message' = ""
    /\ playAgainBtn' = "none"
    /\ giveUpBtn' = "none"
    /\ fileInput' = ""
    /\ step' = "upload"
    /\ UNCHANGED timerVars
    /\ UNCHANGED campaignVars
    /\ UNCHANGED <<variant, processing, batmanLocation, loading, markers,
                   gameImageSrc, imgSize, inflight>>

\* resetGame() with the gameActive = true of playAgain()
Server_resetGame_activates ==
    /\ variant = "server"
    /\ ~loading
    /\ gameActive' = TRUE
    /\ attempts' = 0
    /\ message' = ""
    /\ playAgainBtn' = "none"
    /\ giveUpBtn' = "none"
    /\ fileInput' = ""
    /\ markers' = NoMarkers
    /\ step' = "upload"
    /\ UNCHANGED timerVars
    /\ UNCHANGED campaignVars
    /\ UNCHANGED <<variant, processing, batmanLocation, loading,
                   gameImageSrc, imgSize, inflight>>

\* resetGame()
Server_resetGame ==
    /\ variant = "server"
    /\ ~loading
    /\ gameActive' = FALSE
    /\ attempts' = 0
    /\ message' = ""
    /\ playAgainBtn' = "none"
    /\ giveUpBtn' = "none"
    /\ fileInput' = ""
    /\ markers' = NoMarkers
    /\ step' = "upload"
    /\ UNCHANGED timerVars
    /\ UNCHANGED campaignVars
    /\ UNCHANGED <<variant, processing, batmanLocation, loading,
                   gameImageSrc, imgSize, inflight>>

----------------------------------------------------------------------------
(* The score and timer variant: src/front-end/script.js lines 144-372 *)

\* the path the /upload endpoint answers for the n-th stored file
PathOf(n) == "/uploaded-images/upload-" \o ToString(n)

\* Math.floor((Date.now() - startTime) / 1000)
ElapsedSeconds(t, start) == (t - start) \div 1000

\* calculateScore without the Math.max(0, ...)
calculateScore_unclamped(clicks, seconds) ==
    1000 - clicks * 50 - seconds * 10

\* calculateScore with the time penalty added instead of subtracted
calculateScore_timeBonus(clicks, seconds) ==
    LET raw == 1000 - clicks * 50 + seconds * 10
    IN  IF raw > 0 THEN raw ELSE 0

\* calculateScore(clicks, seconds)
calculateScore(clicks, seconds) ==
    LET baseScore == 1000
        clickPenalty == clicks * 50
        timePenalty == seconds * 10
        raw == baseScore - clickPenalty - timePenalty
    IN  IF raw > 0 THEN raw ELSE 0

\* the clock moves on
Advance ==
    /\ variant = "timer"
    /\ \E t \in TimePoints : t > now /\ now' = t
    /\ UNCHANGED campaignVars
    /\ UNCHANGED <<variant, gameActive, attempts, processing, batmanLocation,
                   step, markers, playAgainBtn, giveUpBtn, loading, message,
                   fileInput, gameImageSrc, imgSize, inflight, startTime,
                   timerInterval, intervals, timerIds, compositeImagePath,
                   uploads, uploadStatus, timerDisplay, readyTimeouts,
                   resultsTimeouts, results>>

\* fileInput 'change' and upload-area 'drop', then uploadAndProcess() up to
\* its first await
Timer_fileSelectedWith(f, viaInput) ==
    /\ variant = "timer"
    /\ step = "upload"
    /\ uploads + inflight < MaxUploads
    /\ fileInput' = IF viaInput /\ f # "none" THEN "selected" ELSE fileInput
    /\ IF f = "image"
       THEN /\ uploadStatus' = "uploading"
            /\ inflight' = inflight + 1
       ELSE UNCHANGED <<uploadStatus, inflight>>
    /\ UNCHANGED campaignVars
    /\ UNCHANGED <<variant, gameActive, attempts, processing, batmanLocation,
                   step, markers, playAgainBtn, giveUpBtn, loading, message,
                   gameImageSrc, imgSize, now, startTime, timerInterval,
                   intervals, timerIds, compositeImagePath, uploads,
                   timerDisplay, readyTimeouts, resultsTimeouts, results>>

\* a selection or a drop of any kind of file
Timer_fileSelected ==
    \E f \in Files, viaInput \in BOOLEAN : Timer_fileSelectedWith(f, viaInput)

\* uploadAndProcess() from the response on, result.success true, for the
\* i-th oldest of the calls in flight: each call resumes with its own
\* response, whatever was issued after it
Timer_uploadedCall(i) ==
    /\ variant = "timer"
    /\ i \in 1..inflight
    /\ inflight' = inflight - 1
    /\ uploads' = uploads + 1
    /\ compositeImagePath' = PathOf(uploads + 1)
    /\ uploadStatus' = "processed"
    /\ readyTimeouts' = readyTimeouts + 1
    /\ UNCHANGED campaignVars
    /\ UNCHANGED <<variant, gameActive, attempts, processing, batmanLocation,
                   step, markers, playAgainBtn, giveUpBtn, loading, message,
                   fileInput, gameImageSrc, imgSize, now, startTime,
                   timerInterval, intervals, timerIds, timerDisplay,
                   resultsTimeouts, results>>

\* the responses arrive in any order
Timer_uploaded == \E i \in 1..inflight : Timer_uploadedCall(i)

\* a failure handler that calls uploadAndProcess(file) again
Timer_uploadFailed_retry ==
    /\ variant = "timer"
    /\ inflight > 0
    /\ inflight' = inflight
    /\ uploadStatus' = "uploading"
    /\ UNCHANGED campaignVars
    /\ UNCHANGED <<variant, gameActive, attempts, processing, batmanLocation,
                   step, markers, playAgainBtn, giveUpBtn, loading, message,
                   fileInput, gameImageSrc, imgSize, now, startTime,
                   timerInterval, intervals, timerIds, compositeImagePath,
                   uploads, timerDisplay, readyTimeouts, resultsTimeouts,
                   results>>

\* uploadAndProcess() from the response on, result.success not true (the
\* endpoint's 400 answer) or an exception (fetch or response.json() rejects)
Timer_uploadFailed ==
    /\ variant = "timer"
    /\ inflight > 0
    /\ inflight' = inflight - 1
    /\ \E status \in {"failed", "error"} : uploadStatus' = status
    /\ UNCHANGED campaignVars
    /\ UNCHANGED <<variant, gameActive, attempts, processing, batmanLocation,
                   step, markers, playAgainBtn, giveUpBtn, loading, message,
                   fileInput, gameImageSrc, imgSize, now, startTime,
                   timerInterval, intervals, timerIds, compositeImagePath,
                   uploads, timerDisplay, readyTimeouts, resultsTimeouts,
                   results>>

\* setTimeout(() => { showStep('ready'); }, 1000)
Timer_showReady ==
    /\ variant = "timer"
    /\ readyTimeouts > 0
    /\ readyTimeouts' = readyTimeouts - 1
    /\ step' = "ready"
    /\ UNCHANGED campaignVars
    /\ UNCHANGED <<variant, gameActive, attempts, processing, batmanLocation,
                   markers, playAgainBtn, giveUpBtn, loading, message,
                   fileInput, gameImageSrc, imgSize, inflight, now, startTime,
                   timerInterval, intervals, timerIds, compositeImagePath,
                   uploads, uploadStatus, timerDisplay, resultsTimeouts,
                   results>>

\* startGame()
Timer_startGame ==
    /\ variant = "timer"
    /\ step = "ready"
    /\ timerIds < MaxTimers
    /\ gameImageSrc' = compositeImagePath
    /\ step' = "game"
    /\ startTime' = now
    /\ timerIds' = timerIds + 1
    /\ timerInterval' = timerIds + 1
    /\ intervals' = intervals \cup {timerIds + 1}
    /\ attempts' = 0
    /\ gameActive' = TRUE
    /\ UNCHANGED campaignVars
    /\ UNCHANGED <<variant, processing, batmanLocation, markers, playAgainBtn,
                   giveUpBtn, loading, message, fileInput, imgSize, inflight,
                   now, compositeImagePath, uploads, uploadStatus,
                   timerDisplay, readyTimeouts, resultsTimeouts, results>>

\* updateTimer(), run by a repeating interval
Timer_updateTimer ==
    /\ variant = "timer"
    /\ intervals # {}
    /\ IF startTime = 0
       THEN UNCHANGED timerDisplay
       ELSE LET elapsed == ElapsedSeconds(now, startTime)
            IN  timerDisplay' = <<elapsed \div 60, elapsed % 60>>
    /\ UNCHANGED campaignVars
    /\ UNCHANGED <<variant, gameActive, attempts, processing, batmanLocation,
                   step, markers, playAgainBtn, giveUpBtn, loading, message,
                   fileInput, gameImageSrc, imgSize, inflight, now, startTime,
                   timerInterval, intervals, timerIds, compositeImagePath,
                   uploads, uploadStatus, readyTimeouts, resultsTimeouts,
                   results>>

\* the gameImage 'click' listener, for a click at p
Timer_clickHandler(p) ==
    /\ variant = "timer"
    /\    IF ~gameActive
          THEN UNCHANGED <<attempts, markers, message, gameActive, intervals,
                           resultsTimeouts>>
          ELSE /\ attempts' = attempts + 1
               /\ IF IsHit(p, batmanLocation, imgSize)
                  THEN /\ intervals' = intervals \ {timerInterval}
                       /\ gameActive' = FALSE
                       /\ markers' = Append(markers, ClickMarker(p, TRUE))
                       /\ LET timeElapsed == ElapsedSeconds(now, startTime)
                              score == calculateScore(attempts + 1, timeElapsed)
                          IN  resultsTimeouts' = Append(resultsTimeouts,
                                 [clicks |-> attempts + 1,
                                  timeElapsed |-> timeElapsed,
                                  score |-> score])
                       /\ UNCHANGED message
                  ELSE /\ markers' = Append(markers, ClickMarker(p, FALSE))
                       /\ message' = "notquite"
                       /\ UNCHANGED <<gameActive, intervals, resultsTimeouts>>
    /\ UNCHANGED campaignVars
    /\ UNCHANGED <<variant, processing, batmanLocation, step, playAgainBtn,
                   giveUpBtn, loading, fileInput, gameImageSrc, imgSize,
                   inflight, now, startTime, timerInterval, timerIds,
                   compositeImagePath, uploads, uploadStatus, timerDisplay,
                   readyTimeouts, results>>

\* a click on the image, which the game step shows
Timer_click ==
    /\ step = "game"
    /\ gameActive => attempts < MaxAttempts
    /\ \E p \in ClickPoints : Timer_clickHandler(p)

\* showResults(clicks, timeElapsed, score), up to its showStep('results'):
\* timeElapsed and score are the constants of the handler that set the
\* timeout, clicks is the module's variable, read when the callback runs
ShownResults(r) ==
    [finalTime |-> <<r.timeElapsed \div 60, r.timeElapsed % 60>>,
     finalClicks |-> attempts,
     finalScore |-> r.score]

\* setTimeout(() => { showResults(clicks, timeElapsed, score); }, 1000):
\* timeouts of one delay run in the order they were set
Timer_showResults ==
    /\ variant = "timer"
    /\ resultsTimeouts # << >>
    /\ results' = {ShownResults(Head(resultsTimeouts))}
    /\ resultsTimeouts' = Tail(resultsTimeouts)
    /\ step' = "results"
    /\ UNCHANGED campaignVars
    /\ UNCHANGED <<variant, gameActive, attempts, processing, batmanLocation,
                   markers, playAgainBtn, giveUpBtn, loading, message,
                   fileInput, gameImageSrc, imgSize, inflight, now, startTime,
                   timerInterval, intervals, timerIds, compositeImagePath,
                   uploads, uploadStatus, timerDisplay, readyTimeouts>>

\* resetGame()
Timer_resetGame ==
    /\ variant = "timer"
    /\ gameActive' = FALSE
    /\ attempts' = 0
    /\ startTime' = 0
    /\ compositeImagePath' = "null"
    /\ message' = ""
    /\ fileInput' = ""
    /\ uploadStatus' = ""
    /\ IF timerInterval # 0
       THEN /\ intervals' = intervals \ {timerInterval}
            /\ timerInterval' = 0
       ELSE UNCHANGED <<intervals, timerInterval>>
    /\ markers' = NoMarkers
    /\ step' = "upload"
    /\ UNCHANGED campaignVars
    /\ UNCHANGED <<variant, processing, batmanLocation, playAgainBtn,
                   giveUpBtn, loading, gameImageSrc, imgSize, inflight, now,
                   timerIds, uploads, timerDisplay, readyTimeouts,
                   resultsTimeouts, results>>

----------------------------------------------------------------------------
(* Scoring runs: the timer variant in mid-game, after any number of misses *)
(* whose markers have timed out and any time of play, takes its next click *)

ScoreInit ==
    /\ variant = "timer"
    /\ gameActive = TRUE
    /\ attempts \in 0..(MaxClicks - 1)
    /\ processing = FALSE
    /\ batmanLocation = [x |-> Half, y |-> Half, radius |-> 50]
    /\ step = "game"
    /\ markers = NoMarkers
    /\ playAgainBtn = "none"
    /\ giveUpBtn = "none"
    /\ loading = FALSE
    /\ message \in {"", "notquite"}
    /\ message = "" <=> attempts = 0
    /\ fileInput = "selected"
    /\ gameImageSrc = PathOf(1)
    /\ imgSize = <<800, 600>>
    /\ inflight = 0
    /\ startTime = 1000
    /\ now \in {1000 + 500 * k : k \in 0..(2 * MaxSeconds)}
    /\ timerInterval = 1
    /\ intervals = {1}
    /\ timerIds = 1
    /\ compositeImagePath = PathOf(1)
    /\ uploads = 1
    /\ uploadStatus = "processed"
    /\ timerDisplay = <<0, 0>>
    /\ readyTimeouts = 0
    /\ resultsTimeouts = << >>
    /\ results = {}
    /\ CampaignLoaded

Score_click ==
    /\ attempts < MaxClicks
    /\ \E p \in {<<400, 300>>, <<300, 300>>} : Timer_clickHandler(p)

ScoreNext == Score_click

SpecScore == ScoreInit /\ [][ScoreNext]_vars

----------------------------------------------------------------------------

\* the two variants that keep no clock: script.js lines 1-143 and the
\* server-processed game
UntimedInit ==
    /\ Init
    /\ variant \in {"plain", "server"}

UntimedNext ==
    \/ Resize
    \/ RemoveMarker
    \/ Plain_fileSelected
    \/ Plain_click
    \/ Plain_playAgain
    \/ Plain_resetGame
    \/ Server_fileSelected
    \/ Server_processed
    \/ Server_processFailed
    \/ Server_click
    \/ Server_giveUp
    \/ Server_playAgain
    \/ Server_resetGame

SpecUntimed == UntimedInit /\ [][UntimedNext]_vars

Next ==
    \/ Resize
    \/ RemoveMarker
    \/ Plain_fileSelected
    \/ Plain_click
    \/ Plain_playAgain
    \/ Plain_resetGame
    \/ Server_fileSelected
    \/ Server_processed
    \/ Server_processFailed
    \/ Server_click
    \/ Server_giveUp
    \/ Server_playAgain
    \/ Server_resetGame
    \/ Advance
    \/ Timer_fileSelected
    \/ Timer_uploaded
    \/ Timer_uploadFailed
    \/ Timer_showReady
    \/ Timer_startGame
    \/ Timer_updateTimer
    \/ Timer_click
    \/ Timer_showResults
    \/ Timer_resetGame

Spec == Init /\ [][Next]_vars

\* the event loop runs every timeout that is due: a pending marker.remove()
\* is not postponed for ever
SpecTimeouts == Init /\ [][Next]_vars /\ WF_vars(RemoveMarker)

----------------------------------------------------------------------------
(* The campaign page: src/unnamed/part_000 lines 1-235 *)

\* uploadImage() calls that have not returned, one more than MaxRequests
\* never being started
MaxRequests == 2

\* image files by name
CampaignFiles == {"map.png", "inn.png"}

\* ids a response of /api/upload can carry as data.campaign_id
CampaignIds == {1, 2}

\* handleFileSelect(file), called by the fileInput 'change' listener
\* (viaInput) or by the 'drop' listener of uploadBox, for no file, a file
\* that is no image, or an image
Campaign_handleFileSelect(f, viaInput) ==
    /\ variant = "campaign"
    /\ fileInput' = IF viaInput /\ f # "none" THEN "selected" ELSE fileInput
    /\ IF f \in CampaignFiles
       THEN /\ selectedFile' = f
            /\ uploadText' = f
            /\ uploadBtnDisabled' = FALSE
       ELSE UNCHANGED <<selectedFile, uploadText, uploadBtnDisabled>>
    /\ UNCHANGED timerVars
    /\ UNCHANGED <<loadingIndicator, currentCampaignId, reloading>>
    /\ UNCHANGED <<variant, gameActive, attempts, processing, batmanLocation,
                   step, markers, playAgainBtn, giveUpBtn, loading, message,
                   gameImageSrc, imgSize, inflight>>

\* a file chosen in the dialog or dropped on the box
Campaign_fileSelected ==
    \E f \in {"none", "other"} \cup CampaignFiles, viaInput \in BOOLEAN :
       Campaign_handleFileSelect(f, viaInput)

\* uploadImage(), the 'click' listener of uploadBtn, up to its await of
\* fetch('/api/upload'); a disabled button delivers no click
Campaign_uploadImage ==
    /\ variant = "campaign"
    /\ ~uploadBtnDisabled
    /\ inflight + reloading < MaxRequests
    /\ IF selectedFile = "null"
       THEN UNCHANGED <<loadingIndicator, uploadBtnDisabled, inflight>>
       ELSE /\ loadingIndicator' = "block"
            /\ uploadBtnDisabled' = TRUE
            /\ inflight' = inflight + 1
    /\ UNCHANGED timerVars
    /\ UNCHANGED <<selectedFile, uploadText, currentCampaignId, reloading>>
    /\ UNCHANGED <<variant, gameActive, attempts, processing, batmanLocation,
                   step, markers, playAgainBtn, giveUpBtn, loading, message,
                   fileInput, gameImageSrc, imgSize>>

\* uploadImage() from the response on, response.ok and a campaign that
\* displayCampaign() can show, up to its await of loadCampaignsList()
Campaign_uploaded(id) ==
    /\ variant = "campaign"
    /\ inflight > 0
    /\ inflight' = inflight - 1
    /\ currentCampaignId' = id
    /\ reloading' = reloading + 1
    /\ UNCHANGED timerVars
    /\ UNCHANGED <<selectedFile, uploadText, uploadBtnDisabled,
                   loadingIndicator>>
    /\ UNCHANGED <<variant, gameActive, attempts, processing, batmanLocation,
                   step, markers, playAgainBtn, giveUpBtn, loading, message,
                   fileInput, gameImageSrc, imgSize>>

\* a response with any campaign id
Campaign_responded == \E id \in CampaignIds : Campaign_uploaded(id)

\* uploadImage() after loadCampaignsList() (which catches its own errors):
\* the form is reset, then the finally block runs
Campaign_reloaded ==
    /\ variant = "campaign"
    /\ reloading > 0
    /\ reloading' = reloading - 1
    /\ selectedFile' = "null"
    /\ fileInput' = ""
    /\ uploadText' = "prompt"
    /\ loadingIndicator' = "none"
    /\ uploadBtnDisabled' = FALSE
    /\ UNCHANGED timerVars
    /\ UNCHANGED currentCampaignId
    /\ UNCHANGED <<variant, gameActive, attempts, processing, batmanLocation,
                   step, markers, playAgainBtn, giveUpBtn, loading, message,
                   gameImageSrc, imgSize, inflight>>

\* uploadImage() from the response on, when fetch() rejects, response.ok is
\* false or response.json() rejects (currentCampaignId untouched), or when
\* displayCampaign() throws on the campaign delivered (currentCampaignId
\* already assigned): the catch block, then the finally block
Campaign_uploadFailed ==
    /\ variant = "campaign"
    /\ inflight > 0
    /\ inflight' = inflight - 1
    /\ currentCampaignId' \in {currentCampaignId} \cup CampaignIds
    /\ loadingIndicator' = "none"
    /\ uploadBtnDisabled' = FALSE
    /\ UNCHANGED timerVars
    /\ UNCHANGED <<selectedFile, uploadText, reloading>>
    /\ UNCHANGED <<variant, gameActive, attempts, processing, batmanLocation,
                   step, markers, playAgainBtn, giveUpBtn, loading, message,
                   fileInput, gameImageSrc, imgSize>>

CampaignInit ==
    /\ variant = "campaign"
    /\ Loaded
    /\ imgSize = <<800, 600>>

CampaignNext ==
    \/ Campaign_fileSelected
    \/ Campaign_uploadImage
    \/ Campaign_responded
    \/ Campaign_reloaded
    \/ Campaign_uploadFailed

SpecCampaign == CampaignInit /\ [][CampaignNext]_vars

----------------------------------------------------------------------------
(* Vocabulary of the properties *)

\* the click listener of the loaded variant handles a click at p
ClickHandled(p) ==
    \/ Plain_clickHandler(p)
    \/ Server_clickHandler(p)
    \/ Timer_clickHandler(p)

\* the session states of the specification, read off the client's variables
Playing == gameActive

\* the squared Euclidean distance, in 1/Den^2 square pixels, from the click
\* point p to the target (nx/Den, ny/Den) projected onto a w by h image
SqDistance(p, nx, ny, w, h) ==
    LET dx == Den * p[1] - nx * w
        dy == Den * p[2] - ny * h
    IN  dx * dx + dy * dy

\* p lies within the placement radius of the target as now rendered
WithinRadius(p) ==
    SqDistance(p, batmanLocation.x, batmanLocation.y, imgSize[1], imgSize[2])
        <= (Den * batmanLocation.radius) * (Den * batmanLocation.radius)

\* the target is at (0.5, 0.5) with radius 50
CentredTarget ==
    /\ 2 * batmanLocation.x = Den
    /\ 2 * batmanLocation.y = Den
    /\ batmanLocation.radius = 50

\* the step appended a marker of the given kind at the click point p
Appended(p, success) ==
    /\ Len(markers') = Len(markers) + 1
    /\ SubSeq(markers', 1, Len(markers)) = markers
    /\ markers'[Len(markers')] =
          [left |-> Den * p[1], top |-> Den * p[2], success |-> success]

\* the step was a hit: the round ended with a success marker at p
HitAt(p) == ~gameActive' /\ Appended(p, TRUE)

\* the step was a miss: the round goes on with a miss marker at p
MissAt(p) == gameActive' /\ Appended(p, FALSE)

----------------------------------------------------------------------------
(* C1: every click handled while Playing is a hit exactly when the         *)
(* Euclidean distance from the click point to the projected target is at   *)
(* most the placement radius: at distance equal to the radius it is a hit, *)
(* at any larger distance a miss.                                          *)
C1_HitIffWithinRadius ==
    [][\A p \in ClickPoints :
          (Playing /\ ClickHandled(p)) =>
              /\ WithinRadius(p) => HitAt(p)
              /\ ~WithinRadius(p) => MissAt(p)]_vars

\* a round won by a click at distance exactly 50 from the centred target
C1_Witness ==
    /\ ~gameActive
    /\ CentredTarget
    /\ imgSize = <<800, 600>>
    /\ SqDistance(<<430, 340>>, Half, Half, 800, 600) = (Den * 50) * (Den * 50)
    /\ \E i \in 1..Len(markers) :
          markers[i] = [left |-> Den * 430, top |-> Den * 340, success |-> TRUE]

(* C2: the hit test projects the target onto the size at which the image   *)
(* is rendered at the moment of the click; with the target at (0.5, 0.5),  *)
(* radius 50 and an 800x600 rendering, a click at (400, 300) is a hit and  *)
(* a click at (300, 300) is a miss.                                        *)
C2_ProjectsOntoRenderedSize ==
    [][\A p \in ClickPoints :
          (Playing /\ ClickHandled(p)) =>
              /\ HitAt(p) <=>
                    SqDistance(p, batmanLocation.x, batmanLocation.y,
                               imgSize[1], imgSize[2])
                       <= (Den * batmanLocation.radius)
                            * (Den * batmanLocation.radius)
              /\ (CentredTarget /\ imgSize = <<800, 600>>) =>
                    /\ p = <<400, 300>> => HitAt(p)
                    /\ p = <<300, 300>> => MissAt(p)]_vars

\* the scenario: a miss at (300, 300), then the hit at (400, 300)
C2_Witness ==
    /\ ~gameActive
    /\ CentredTarget
    /\ imgSize = <<800, 600>>
    /\ markers = << [left |-> Den * 300, top |-> Den * 300, success |-> FALSE],
                    [left |-> Den * 400, top |-> Den * 300, success |-> TRUE] >>

\* the larger of 0 and v
AtLeastZero(v) == CHOOSE m \in {0, v} : m >= 0 /\ m >= v

\* the elements of a sequence
Elements(q) == {q[i] : i \in 1..Len(q)}

(* C3: the score computed at the Won transition, from the clicks handled   *)
(* (attempts) and the whole seconds elapsed, is                            *)
(* max(0, 1000 - attempts*50 - elapsed_seconds*10); attempts = 3 and       *)
(* elapsed_seconds = 20 give 650.                                          *)
C3_ScoreFormula ==
    /\ ~gameActive => Len(resultsTimeouts) = 1
    /\ \A r \in Elements(resultsTimeouts) :
          /\ r.clicks = attempts
          /\ r.timeElapsed * 1000 <= now - startTime
          /\ now - startTime < (r.timeElapsed + 1) * 1000
          /\ r.score = AtLeastZero(1000 - r.clicks * 50 - r.timeElapsed * 10)
          /\ (r.clicks = 3 /\ r.timeElapsed = 20) => r.score = 650

\* the third click hits after 20.5 seconds of play
C3_Witness ==
    /\ ~gameActive
    /\ now - startTime = 20500
    /\ resultsTimeouts = << [clicks |-> 3, timeElapsed |-> 20, score |-> 650] >>

(* C4: the score is never negative, and it never grows with either         *)
(* argument: with the attempts fixed a larger elapsed_seconds gives no     *)
(* larger score, with elapsed_seconds fixed a larger attempts gives no     *)
(* larger score.                                                           *)
C4_ScoreMonotonic ==
    \A r \in Elements(resultsTimeouts) :
       /\ r.score >= 0
       /\ \A seconds \in r.timeElapsed..(MaxSeconds + 1) :
             /\ calculateScore(r.clicks, seconds) >= 0
             /\ calculateScore(r.clicks, seconds) <= r.score
       /\ \A clicks \in r.clicks..(MaxClicks + 1) :
             /\ calculateScore(clicks, r.timeElapsed) >= 0
             /\ calculateScore(clicks, r.timeElapsed) <= r.score

\* a win whose penalties exceed the base score: the score is clamped at 0
C4_Witness ==
    \E r \in Elements(resultsTimeouts) :
       /\ r.clicks * 50 + r.timeElapsed * 10 > 1000
       /\ r.score = 0
       /\ calculateScore(r.clicks - 1, 0) > 0

(* C5: a miss-click while Playing increments attempts by exactly one,      *)
(* appends one miss marker at the click location, and leaves the session   *)
(* Playing with the target Placement unchanged.                            *)
C5_MissClick ==
    [][\A p \in ClickPoints :
          (Playing /\ ClickHandled(p) /\ ~WithinRadius(p)) =>
              /\ attempts' = attempts + 1
              /\ Appended(p, FALSE)
              /\ gameActive'
              /\ step' = step
              /\ batmanLocation' = batmanLocation]_vars

\* one miss so far, at (300, 300), its marker still shown
C5_Witness ==
    /\ gameActive
    /\ attempts = 1
    /\ markers = << [left |-> Den * 300, top |-> Den * 300, success |-> FALSE] >>
    /\ ~WithinRadius(<<300, 300>>)

\* the markers of a list that carry the success class
SuccessMarkers(ms) == SelectSeq(ms, LAMBDA m : m.success)

(* C6: a hit-click while Playing ends the round (Won): a success marker is *)
(* appended and the score is computed, once, at that transition; the       *)
(* success marker is not removed by a timeout, and while the round is over *)
(* no click changes attempts, markers or score.                            *)
C6_WonIsTerminal ==
    [][/\ \A p \in ClickPoints :
             (Playing /\ ClickHandled(p) /\ WithinRadius(p)) =>
                 /\ ~gameActive'
                 /\ Appended(p, TRUE)
                 /\ variant = "timer" =>
                       /\ Len(resultsTimeouts') = Len(resultsTimeouts) + 1
                       /\ SubSeq(resultsTimeouts', 1, Len(resultsTimeouts))
                             = resultsTimeouts
       /\ \A p \in ClickPoints :
             (~Playing /\ ClickHandled(p)) =>
                 UNCHANGED <<gameActive, attempts, markers, resultsTimeouts,
                             results>>
       /\ Len(resultsTimeouts') > Len(resultsTimeouts) =>
             Playing /\ ~gameActive'
       /\ results' # results =>
             /\ resultsTimeouts # << >>
             /\ results' = {ShownResults(Head(resultsTimeouts))}
       /\ SuccessMarkers(markers') # SuccessMarkers(markers) =>
             \/ Playing /\ ~gameActive'
             \/ markers' = << >>]_vars

\* a round won at the second click in the timer variant: the miss marker
\* has timed out, the success marker stays, one score awaits its display
C6_Witness ==
    /\ variant = "timer"
    /\ ~gameActive
    /\ attempts = 2
    /\ Len(markers) = 1
    /\ markers[1].success
    /\ Len(resultsTimeouts) = 1
    /\ resultsTimeouts[1].clicks = 2

(* C7: playAgain from Won or Revealed leaves the session Playing with      *)
(* attempts = 0 and no markers, and the target Placement (x, y, radius)    *)
(* as it was.                                                              *)
C7_PlayAgain ==
    [][(~Playing /\ (Plain_playAgain \/ Server_playAgain)) =>
          /\ gameActive'
          /\ attempts' = 0
          /\ markers' = << >>
          /\ step' = "game"
          /\ batmanLocation' = batmanLocation]_vars

\* the server variant after playAgain, on the placement of the response
C7_Witness ==
    /\ variant = "server"
    /\ gameActive
    /\ message = ""
    /\ playAgainBtn = "none"
    /\ attempts = 0
    /\ markers = << >>
    /\ batmanLocation = [x |-> 1, y |-> Half, radius |-> 100]

(* C8: giveUp while Playing ends the round (Revealed): a reveal marker is  *)
(* added at the true Placement projected onto the rendered image, attempts *)
(* is unchanged and no score is computed; clicks after it are ignored.     *)
C8_GiveUp ==
    [][/\ (Playing /\ Server_giveUp) =>
             /\ ~gameActive'
             /\ message' = "revealed"
             /\ Len(markers') = Len(markers) + 1
             /\ SubSeq(markers', 1, Len(markers)) = markers
             /\ markers'[Len(markers')] =
                   [left |-> batmanLocation.x * imgSize[1],
                    top |-> batmanLocation.y * imgSize[2],
                    success |-> TRUE]
             /\ attempts' = attempts
             /\ batmanLocation' = batmanLocation
             /\ UNCHANGED <<resultsTimeouts, results>>
       /\ \A p \in ClickPoints :
             (message = "revealed" /\ Server_clickHandler(p)) =>
                 UNCHANGED <<gameActive, attempts, markers, message>>]_vars

\* given up after one miss, on an image rendered 900 pixels wide: the
\* reveal marker is at (225, 337.5)
C8_Witness ==
    /\ variant = "server"
    /\ ~gameActive
    /\ message = "revealed"
    /\ attempts = 1
    /\ batmanLocation = [x |-> 1, y |-> Half, radius |-> 100]
    /\ markers # << >>
    /\ markers[Len(markers)] = [left |-> 900, top |-> 2 * 675, success |-> TRUE]

\* resetGame() of the loaded variant runs
ResetRuns == Plain_resetGame \/ Server_resetGame \/ Timer_resetGame

(* C9: reset, from any state, leaves the session in Idle: the upload step  *)
(* is shown, the game is inactive, attempts is 0, there are no markers, no *)
(* timer is running and the file input is cleared.                         *)
C9_ResetLeavesIdle ==
    [][ResetRuns =>
          /\ step' = "upload"
          /\ ~gameActive'
          /\ attempts' = 0
          /\ markers' = << >>
          /\ intervals' = {}
          /\ fileInput' = ""]_vars

(* C10: reset discards the Placement and the composite image reference:    *)
(* after it the client holds neither the target coordinates and radius of  *)
(* the last processing response nor the composite image path.              *)
C10_ResetDiscardsPlacement ==
    [][ResetRuns =>
          /\ batmanLocation' = [x |-> Half, y |-> Half, radius |-> 50]
          /\ compositeImagePath' = "null"]_vars

\* the variables that make up a game session: its state, target, attempts,
\* markers, timer and score
sessionVars == <<gameActive, attempts, markers, batmanLocation, step,
                 startTime, timerInterval, intervals, compositeImagePath,
                 resultsTimeouts, results>>

\* Idle: the upload step is shown, no game is active, no upload or
\* processing call is in flight and no step change is pending
Idle ==
    /\ step = "upload"
    /\ ~gameActive
    /\ ~processing
    /\ inflight = 0
    /\ readyTimeouts = 0

\* a reset run in this state would change nothing at all
FixedByReset == ENABLED (ResetRuns /\ UNCHANGED vars)

(* C11: reset in Idle is a no-op, it leaves every session variable as it    *)
(* was; and reset is idempotent, a second reset right after a reset changes *)
(* nothing.                                                                 *)
C11_ResetIdempotent ==
    [][ResetRuns =>
          /\ Idle => UNCHANGED sessionVars
          /\ FixedByReset']_vars

\* Idle again after a round was played and reset
C11_Witness ==
    /\ Idle
    /\ FixedByReset
    /\ gameImageSrc # ""
    /\ fileInput = ""

(* C12: when a new upload was issued while an earlier processing call is    *)
(* still in flight, the response of the earlier call is discarded: when it  *)
(* resolves it changes neither the session state, nor the Placement and the *)
(* composite image reference, nor the step shown, now or by a timeout it    *)
(* sets.                                                                    *)
C12_StaleResponseDiscarded ==
    [][\A i \in 1..MaxUploads :
          (Timer_uploadedCall(i) /\ i < inflight) =>
              UNCHANGED <<gameActive, attempts, batmanLocation, step,
                          compositeImagePath, readyTimeouts>>]_vars

\* an event of one of the interactive controls of the server variant
Server_controlEvent ==
    \/ Server_fileSelected
    \/ Server_click
    \/ Server_giveUp
    \/ Server_playAgain
    \/ Server_resetGame

(* C13: while a processing call is in flight the interactive controls are   *)
(* disabled: the buttons are, and no upload, image click, give-up, play-    *)
(* again or reset event changes the session state or issues another call    *)
(* until the call completes.                                                *)
C13_ControlsDisabledInFlight ==
    [][/\ processing' => (loading' /\ inflight' = 1)
       /\ (processing /\ Server_controlEvent) =>
             /\ UNCHANGED sessionVars
             /\ UNCHANGED <<processing, inflight, loading>>]_vars

\* a second image in flight, after a round on the first was played and reset
C13_Witness ==
    /\ variant = "server"
    /\ processing
    /\ loading
    /\ inflight = 1
    /\ gameImageSrc # ""
    /\ fileInput = "selected"

\* Won in the timer variant: the round has ended with a hit and the game or
\* the results step is shown
Won ==
    /\ variant = "timer"
    /\ ~gameActive
    /\ step \in {"game", "results"}

\* the hit-click stops the timer, and the elapsed time of the score is the
\* one of that moment
StopsAtHit ==
    \A p \in ClickPoints :
       (Playing /\ Timer_clickHandler(p) /\ WithinRadius(p)) =>
           /\ timerInterval \notin intervals'
           /\ resultsTimeouts' # << >>
           /\ resultsTimeouts'[Len(resultsTimeouts')].timeElapsed
                 = (now - startTime) \div 1000

\* the results show the elapsed time that was fixed at the hit
ShowsFixedTime ==
    results' # results =>
       /\ resultsTimeouts # << >>
       /\ \A r \in results' :
             r.finalTime = <<Head(resultsTimeouts).timeElapsed \div 60,
                             Head(resultsTimeouts).timeElapsed % 60>>

\* no tick updates the timer display once the round is won
NoTickAfterWon == Won => timerDisplay' = timerDisplay

(* C14: the timer stops at the Won transition and does not accumulate       *)
(* afterwards: the elapsed time used for the score and shown in the results *)
(* is fixed at the moment of the hit, and no timer tick updates the display *)
(* after the terminal transition.                                           *)
C14_TimerStopsAtWon ==
    [][StopsAtHit /\ ShowsFixedTime /\ NoTickAfterWon]_vars

(* C15: the repeating timer tick is cancelled on every terminal and reset   *)
(* transition and never leaks: at most one tick task is active at any       *)
(* time, and none is active while the session is not Playing.               *)
C15_NoTimerLeak ==
    /\ Cardinality(intervals) <= 1
    /\ ~Playing => intervals = {}

\* the listeners of the loaded variant handle a selection (viaInput) or a
\* drop of a file of kind f
FileSelectedWith(f, viaInput) ==
    \/ Plain_fileSelectedWith(f, viaInput)
    \/ Server_fileSelectedWith(f, viaInput)
    \/ Timer_fileSelectedWith(f, viaInput)

(* C16: a selection or a drop that carries no file, or a file whose type    *)
(* does not start with image/, is rejected: no upload or processing request *)
(* is issued, the session state does not change, and a validation message   *)
(* is shown to the user.                                                    *)
C16_NonImageRejected ==
    [][\A f \in Files \ {"image"}, viaInput \in BOOLEAN :
          FileSelectedWith(f, viaInput) =>
              /\ UNCHANGED <<inflight, processing, loading>>
              /\ UNCHANGED sessionVars
              /\ \/ message' = "invalidfile"
                 \/ uploadStatus' = "invalidfile"]_vars

\* the processing or upload call of the loaded variant ends in a failure
CallFails == Server_processFailed \/ Timer_uploadFailed

\* the failure is on screen: the error line of the server variant, one of
\* the two failure lines of the timer variant
FailureShown ==
    \/ variant = "server" /\ message = "error"
    \/ variant = "timer" /\ uploadStatus \in {"failed", "error"}

(* C17: when the upstream call fails (network error, non-OK response or     *)
(* error payload) the failure is shown to the user, the client is in Idle   *)
(* afterwards and no game session exists: the game is not active, and       *)
(* attempts and the Placement are as they were before the failed call.      *)
C17_UpstreamFailure ==
    [][CallFails =>
          /\ FailureShown'
          /\ Idle'
          /\ UNCHANGED <<attempts, batmanLocation, compositeImagePath,
                         markers, gameImageSrc>>]_vars

C20_RadiusAsDelivered ==
    [][\A b \in Placements :
          Server_processedWith(b) => batmanLocation'.radius = b.radius]_vars

\* the client enters Playing on a successful upload: startGame() runs
EntersPlaying ==
    \/ \E f \in Files, viaInput \in BOOLEAN :
          Plain_fileSelectedWith(f, viaInput) /\ f = "image"
    \/ Server_processed
    \/ Timer_startGame

\* at the entry attempts is 0 and the timer, if any, starts at that instant
ZeroedAtEntry ==
    EntersPlaying =>
       /\ gameActive'
       /\ attempts' = 0
       /\ variant = "timer" => startTime' = now

\* while the round goes on, attempts only counts up and the timer start
\* stays where the entry has put it
NotZeroedAgain ==
    (Playing /\ gameActive') =>
       /\ attempts' \in {attempts, attempts + 1}
       /\ startTime' = startTime

(* C21: on every entry into Playing from a successful upload, attempts and  *)
(* the elapsed time are zeroed exactly once: right after the entry attempts *)
(* is 0 and the timer starts at the entry instant, and neither is reset     *)
(* again while that round is played.                                        *)
C21_ZeroedOnceAtEntry ==
    [][ZeroedAtEntry /\ NotZeroedAgain]_vars

\* a handled click records one marker, at the click location
OneMarkerPerClick ==
    \A p \in ClickPoints :
       (Playing /\ ClickHandled(p)) =>
           /\ Len(markers') = Len(markers) + 1
           /\ SubSeq(markers', 1, Len(markers)) = markers
           /\ markers'[Len(markers')].left = Den * p[1]
           /\ markers'[Len(markers')].top = Den * p[2]

\* the markers of the first list are the first markers of the second
IsPrefix(ms, ns) ==
    /\ Len(ms) <= Len(ns)
    /\ SubSeq(ns, 1, Len(ms)) = ms

\* a hit marker leaves the list only when playAgain or reset clears it
HitMarkerStays ==
    ~IsPrefix(SuccessMarkers(markers), SuccessMarkers(markers')) =>
       /\ Plain_playAgain \/ Server_playAgain \/ ResetRuns
       /\ markers' = << >>

\* a step that takes the oldest miss marker off the list
MissMarkerRemoved ==
    /\ MissIndexes(markers) # {}
    /\ \/ RemoveMarker
       \/ markers' = << >>

(* C22: every click handled while Playing records exactly one marker, at    *)
(* the click location; a miss marker is eventually removed (its removal     *)
(* timeout runs, the oldest first), while a hit marker stays until          *)
(* playAgain or reset removes it.                                           *)
C22_MarkerLifetimes ==
    /\ [][OneMarkerPerClick /\ HitMarkerStays]_vars
    /\ \/ []<><<MissMarkerRemoved>>_vars
       \/ <>[](MissIndexes(markers) = {})

\* the server variant won at the second click: the miss marker has gone,
\* the hit marker is still there
C22_Witness ==
    /\ variant = "server"
    /\ message = "found"
    /\ attempts = 2
    /\ Len(markers) = 1
    /\ markers[1].success

\* the failed call leaves and no request takes its place
FailureSendsNothing ==
    CallFails => inflight' = inflight - 1

\* a request goes out only in the handler of a selected or dropped image
SentOnImageSelected ==
    inflight' > inflight =>
       \E viaInput \in BOOLEAN : FileSelectedWith("image", viaInput)

(* C23: no failed upload or processing call is retried automatically: the   *)
(* failure handler sends nothing, and afterwards a request is sent only     *)
(* when the user selects or drops an image again.                           *)
C23_NoAutomaticRetry ==
    [][FailureSendsNothing /\ SentOnImageSelected]_vars

\* the timer variant after a failed upload: nothing in flight, the failure
\* line shown, the upload step still displayed
C23_Witness ==
    /\ variant = "timer"
    /\ uploadStatus \in {"failed", "error"}
    /\ inflight = 0
    /\ uploads = 0
    /\ step = "upload"

\* the processing call of the server variant completes, either way
Server_callCompletes == Server_processed \/ Server_processFailed

\* the flag is set exactly while the one call is in flight
OneCallInFlight ==
    variant = "server" =>
       /\ inflight <= 1
       /\ processing <=> inflight = 1

\* an image selected during a call sends nothing; the completion clears the
\* flag; an image selected when the flag is clear is sent
FlagGuardsCall ==
    /\ \A viaInput \in BOOLEAN :
          Server_fileSelectedWith("image", viaInput) =>
             IF processing
             THEN UNCHANGED <<inflight, processing>>
             ELSE inflight' = 1 /\ processing'
    /\ Server_callCompletes => (~processing' /\ inflight' = 0)

(* C24: in the server-assisted variant at most one processing call is in    *)
(* flight at any time (an image selected while processing is true issues no *)
(* request), and the processing flag is cleared when the call completes,    *)
(* whether it succeeded or failed, so that a later upload is accepted.      *)
C24_OneProcessingCall ==
    /\ []OneCallInFlight
    /\ [][FlagGuardsCall]_vars

\* a call succeeded, the game was reset, a later image was accepted and its
\* call failed: the flag is clear again
C24_Witness ==
    /\ variant = "server"
    /\ gameImageSrc # ""
    /\ message = "error"
    /\ ~processing
    /\ inflight = 0
    /\ step = "upload"

\* a click on the image or a press of the give-up control is handled
ClickOrGiveUp ==
    \/ \E p \in ClickPoints : ClickHandled(p)
    \/ Server_giveUp

(* C25: a click or a giveUp event handled in any state other than Playing   *)
(* is a no-op: it changes neither attempts, markers, timer, score,          *)
(* Placement nor the state (nothing at all of the client).                  *)
C25_IgnoredUnlessPlaying ==
    [][(~Playing /\ ClickOrGiveUp) => UNCHANGED vars]_vars

\* the server variant after a hit at the first click: the image and the
\* give-up handler are still there to receive events
C25_Witness ==
    /\ variant = "server"
    /\ step = "game"
    /\ ~gameActive
    /\ ~loading
    /\ message = "found"
    /\ attempts = 1
    /\ Len(markers) = 1

\* some click on the image is handled
SomeClickHandled == \E p \in ClickPoints : ClickHandled(p)

\* attempts counts the clicks handled since Playing was entered: zero at the
\* entry, one more at every handled click, the same at any other step of
\* the round
CountsClicksOfRound ==
    /\ (~Playing /\ Playing') => attempts' = 0
    /\ (Playing /\ SomeClickHandled) => attempts' = attempts + 1
    /\ (Playing /\ Playing' /\ ~SomeClickHandled) => attempts' = attempts

\* the hit that ends the round is counted, and the score handed to
\* showResults is computed from the count that includes it
WinningClickCounted ==
    (Playing /\ ~Playing' /\ SomeClickHandled) =>
       /\ attempts' >= 1
       /\ variant = "timer" =>
             /\ resultsTimeouts' # << >>
             /\ LET r == resultsTimeouts'[Len(resultsTimeouts')]
                IN  /\ r.clicks = attempts'
                    /\ r.score <= 950

(* C26: the attempts counter includes the winning click: at the Won         *)
(* transition attempts is the number of clicks handled since the session    *)
(* last entered Playing (the misses and the hit, so at least 1), and the    *)
(* score passed to the results never exceeds 950.                           *)
C26_AttemptsCountWinningClick ==
    [][CountsClicksOfRound /\ WinningClickCounted]_vars

\* an upload has succeeded since the last reset (or since the page loaded):
\* only resetGame() takes the path away again
UploadedSinceReset == compositeImagePath # "null"

\* the display leaves the upload step only for the ready step, through the
\* callback of an upload that succeeded after the last reset
LeavesUploadStep ==
    (variant = "timer" /\ step = "upload" /\ step' # "upload") =>
       /\ Timer_showReady
       /\ UploadedSinceReset

(* C27: in the score+timer variant, once reset has returned the client to   *)
(* Idle the displayed step stays the upload step until a new upload         *)
(* succeeds: no delayed callback scheduled before the reset (showResults    *)
(* after a hit, show-ready after an upload) switches the display            *)
(* afterwards.                                                              *)
C27_ResetCancelsCallbacks ==
    [][LeavesUploadStep]_vars

(* C28: in the score+timer variant the session is Playing only while a      *)
(* composite image reference is held: whenever the game is active,          *)
(* compositeImagePath is the non-null path of the last successful upload.   *)
C28_PlayingHoldsImage ==
    (variant = "timer" /\ Playing) =>
       /\ compositeImagePath # "null"
       /\ compositeImagePath = PathOf(uploads)

\* the round of the server variant has ended with a hit, or with giveUp()
Server_Won == variant = "server" /\ ~gameActive /\ message = "found"
Server_Revealed == variant = "server" /\ ~gameActive /\ message = "revealed"

\* a button is on display
Shown(btn) == btn # "none"

\* the two buttons follow the state of the session
ControlsTrackState ==
    variant = "server" =>
       /\ Shown(giveUpBtn) <=> Playing
       /\ Shown(playAgainBtn) <=> (Server_Won \/ Server_Revealed)

(* C29: in the server-assisted variant the controls track the state after   *)
(* any sequence of events: the give-up control is shown exactly when the    *)
(* session is Playing, the play-again control exactly when it is Won or     *)
(* Revealed, and a session that enters Playing through a new successful     *)
(* upload has an empty marker list.                                         *)
C29_ControlsTrackState ==
    /\ []ControlsTrackState
    /\ [][Server_processed => markers' = NoMarkers]_vars

\* Playing through an upload whose response carried no radius: the give-up
\* button is shown, the play-again button is not, no marker is on the image
C29_Witness ==
    /\ variant = "server"
    /\ Playing
    /\ message = "detected"
    /\ Shown(giveUpBtn)
    /\ ~Shown(playAgainBtn)
    /\ markers = NoMarkers
    /\ batmanLocation.radius = DefaultRadius

\* one /api/upload request at most awaits its response
OneUploadInFlight == variant = "campaign" => inflight <= 1

\* the upload button is enabled only with a file selected and no upload in
\* flight
ButtonGuardsUpload ==
    (variant = "campaign" /\ ~uploadBtnDisabled) =>
       /\ selectedFile # "null"
       /\ inflight = 0

\* uploadImage() returns, after a success or after a failure
Campaign_uploadCompletes == Campaign_reloaded \/ Campaign_uploadFailed

\* the completion hides the loading indicator and enables the button
CompletionRestores ==
    Campaign_uploadCompletes =>
       /\ loadingIndicator' = "none"
       /\ ~uploadBtnDisabled'

(* C30: in the campaign front-end at most one /api/upload request is in     *)
(* flight at a time and the upload button is enabled only while a file is   *)
(* selected and no upload is in flight; after an upload completes (success  *)
(* or failure) the loading indicator is hidden and the button re-enabled.   *)
C30_OneCampaignUpload ==
    /\ [](OneUploadInFlight /\ ButtonGuardsUpload)
    /\ [][CompletionRestores]_vars

====
